---- MODULE Spec2Model ----
(***************************************************************************)
(* A model of the FEM example notebook (src/unnamed/part_000): the centre  *)
(* and ellipse estimator (get_max_positions, determine_ellipse,            *)
(* ellipse_to_affine), the calibration cells, the position-ensemble        *)
(* variance of Equation 1, the ensemble averaging cells and the thickness  *)
(* cells (thickness_filter).                                               *)
(*                                                                         *)
(* Numbers.  Real values are exact rationals <<n, d>> with d > 0 in lowest *)
(* terms; rounding is not modelled.  Angles are whole quarter turns (an    *)
(* angle r stands for r * pi/2), where cos and sin are exactly -1, 0 or 1. *)
(* A standard deviation is carried as its square, sqrt being increasing    *)
(* and one-to-one on the non-negative numbers.                             *)
(***************************************************************************)
EXTENDS Integers, Sequences, FiniteSets, TLC

VARIABLES
    data,       \* the caller's image: a sequence of rows of pixel values
    mask,       \* the caller's mask: None, or rows of booleans (TRUE = ignore)
    gmp,        \* the last call of get_max_positions: its argument and result
    de,         \* the last call of determine_ellipse: the fit and the outcome
    e2a,        \* the last call of ellipse_to_affine: arguments, locals, result
    signals,    \* the loaded datasets: fit of the summed pattern, calibration
    nb,         \* the notebook: the cell reached, the loop index, its globals
    var_calls,  \* the calibration each get_variance call of the list integrated with
    profiles,   \* the azimuthally averaged intensity per probe position and k-bin
    gv,         \* the last two calls of get_variance on the ensemble
    var,        \* the variance curves handed to the averaging cell
    avg,        \* the averaging cell's error and mean_val
    sig,        \* the calibrated stack the thickness cells cut: data, axes, metadata
    thickness,  \* the thickness map: one value per probe position
    bins,       \* the bin edges handed to thickness_filter
    tf,         \* the call of thickness_filter: its masks and the list it returned
    fvar_calls  \* the calibration each get_variance call on a sub-stack integrated with

estVars == <<data, mask, gmp, de, e2a>>
pipeVars == <<signals, nb, var_calls>>
varVars == <<profiles, gv>>
ensVars == <<var, avg>>
thickVars == <<sig, thickness, bins, tf, fvar_calls>>
vars == <<data, mask, gmp, de, e2a, signals, nb, var_calls, profiles, gv, var, avg,
          sig, thickness, bins, tf, fvar_calls>>

----------------------------------------------------------------------------
(* Bounds of the model. *)

MaxCount == 2           \* pixel values are 0..MaxCount
MaxAxis == 4            \* semi-axes are 1..MaxAxis
MaxQuarterTurns == 3    \* rotations are 0..MaxQuarterTurns quarter turns

----------------------------------------------------------------------------
(* Exact rational arithmetic. *)

Abs(x) == IF x < 0 THEN -x ELSE x

RECURSIVE GCD(_, _)
GCD(a, b) == IF b = 0 THEN a ELSE GCD(b, a % b)

\* n/d in lowest terms with a positive denominator (d # 0)
Rat(n, d) ==
    LET g == GCD(Abs(n), Abs(d))
        s == IF d < 0 THEN -1 ELSE 1
    IN  <<(s * n) \div g, (s * d) \div g>>

RInt(n) == <<n, 1>>
RAdd(x, y) == Rat(x[1] * y[2] + y[1] * x[2], x[2] * y[2])
RSub(x, y) == Rat(x[1] * y[2] - y[1] * x[2], x[2] * y[2])
RMul(x, y) == Rat(x[1] * y[1], x[2] * y[2])
RDiv(x, y) == Rat(x[1] * y[2], x[2] * y[1])
RLess(x, y) == x[1] * y[2] < y[1] * x[2]

----------------------------------------------------------------------------
(* get_max_positions *)

None == << >>

RECURSIVE flatten(_)
\* ndarray.flatten(): a copy of the rows, one after the other
flatten(grid) == IF grid = << >> THEN << >> ELSE Head(grid) \o flatten(Tail(grid))

\* np.shape(data)
shape(grid) == <<Len(grid), Len(grid[1])>>

\* flattened_array[flattened_mask] = 0, on the flattened copy
ZeroMasked(flat, m) ==
    IF m = None THEN flat
    ELSE [i \in DOMAIN flat |-> IF flatten(m)[i] THEN 0 ELSE flat[i]]

\* the sequences holding each of 0..n-1 once
Permutations0(n) ==
    {p \in [1..n -> 0..(n - 1)] : \A i, j \in 1..n : i # j => p[i] # p[j]}

PermsOf == [n \in 1..4 |-> Permutations0(n)]

\* np.argsort(arr) with the default sort, which is not stable: any order of
\* the indices that puts the values in non-decreasing order
ArgsortResults(arr) ==
    {p \in PermsOf[Len(arr)] :
        \A i \in 1..(Len(arr) - 1) : arr[p[i] + 1] <= arr[p[i + 1] + 1]}

\* seq[:n], the other end of the ranking
HeadSlice(seq, n) == SubSeq(seq, 1, IF n < Len(seq) THEN n ELSE Len(seq))

\* seq[-n:] as Python slices it
LastSlice(seq, n) ==
    LET start == IF n > 0 THEN (IF Len(seq) - n > 0 THEN Len(seq) - n ELSE 0)
                 ELSE (IF -n < Len(seq) THEN -n ELSE Len(seq))
    IN  SubSeq(seq, start + 1, Len(seq))

\* the flat indices divided by the number of rows
CordsByRows(sel, i_shape) ==
    [k \in DOMAIN sel |-> <<sel[k] \div i_shape[1], sel[k] % i_shape[1]>>]

\* the rows of cords.T: (floor_divide(f, i_shape[1]), remainder(f, i_shape[1]))
Cords(sel, i_shape) ==
    [k \in DOMAIN sel |-> <<sel[k] \div i_shape[2], sel[k] % i_shape[2]>>]

\* get_max_positions(signal, mask, num_points) for one result of the argsort
get_max_positions(signal, m, num_points, indexes) ==
    Cords(LastSlice(indexes, num_points), shape(signal))

\* the values the argsort ranks
flattened_array(signal, m) == ZeroMasked(flatten(signal), m)

\* flat.reshape(sh)
reshape(flat, sh) ==
    [r \in 1..sh[1] |-> [c \in 1..sh[2] |-> flat[(r - 1) * sh[2] + c]]]

\* the caller's array had flattened_array been a view of it, as ravel gives:
\* the zeros written into flattened_array are then written into the array
WrittenThrough(signal, flat) == reshape(flat, shape(signal))

\* the caller's array once flattened_array has been written: data.flatten()
\* is a copy, so the array keeps its values whatever flat has become
CallerArray(signal, flat) == signal

----------------------------------------------------------------------------
(* ellipse_to_affine *)

\* np.cos and np.sin of r quarter turns
CosQ(r) == CASE r % 4 = 0 -> 1 [] r % 4 = 2 -> -1 [] OTHER -> 0
SinQ(r) == CASE r % 4 = 1 -> 1 [] r % 4 = 3 -> -1 [] OTHER -> 0

\* the swap that leaves the rotation alone
SwapKeepRot(major, minor, rot) ==
    IF major < minor THEN <<minor, major, rot>> ELSE <<major, minor, rot>>

\* if major < minor: swap the axes and turn the rotation by pi/2.
\* The (major, minor, rot) the matrix is built from.
NormaliseAxes(major, minor, rot) ==
    IF major < minor THEN <<minor, major, rot + 1>> ELSE <<major, minor, rot>>

\* np.matmul of two 3x3 matrices
matmul(A, B) ==
    LET cell(i, j) ==
            RAdd(RAdd(RMul(A[i][1], B[1][j]), RMul(A[i][2], B[2][j])),
                 RMul(A[i][3], B[3][j]))
        row(i) == <<cell(i, 1), cell(i, 2), cell(i, 3)>>
    IN  <<row(1), row(2), row(3)>>

\* np.transpose
transpose(A) ==
    LET row(i) == <<A[1][i], A[2][i], A[3][i]>>
    IN  <<row(1), row(2), row(3)>>

\* a scale along the first axis of the rotated frame instead of the second
AffineScaleFirst(major, minor, rot) ==
    LET Q == << <<RInt(CosQ(rot)), RInt(-SinQ(rot)), RInt(0)>>,
                <<RInt(SinQ(rot)), RInt(CosQ(rot)), RInt(0)>>,
                <<RInt(0), RInt(0), RInt(1)>> >>
        S == << <<Rat(major, minor), RInt(0), RInt(0)>>,
                <<RInt(0), RInt(1), RInt(0)>>,
                <<RInt(0), RInt(0), RInt(1)>> >>
    IN  matmul(matmul(Q, S), transpose(Q))

\* Q S Q, the second rotation not transposed
AffineUntransposed(major, minor, rot) ==
    LET Q == << <<RInt(CosQ(rot)), RInt(-SinQ(rot)), RInt(0)>>,
                <<RInt(SinQ(rot)), RInt(CosQ(rot)), RInt(0)>>,
                <<RInt(0), RInt(0), RInt(1)>> >>
        S == << <<RInt(1), RInt(0), RInt(0)>>,
                <<RInt(0), Rat(major, minor), RInt(0)>>,
                <<RInt(0), RInt(0), RInt(1)>> >>
    IN  matmul(matmul(Q, S), Q)

\* C = Q S Q^T from the normalised axes and rotation
AffineMatrix(major, minor, rot) ==
    LET Q == << <<RInt(CosQ(rot)), RInt(-SinQ(rot)), RInt(0)>>,
                <<RInt(SinQ(rot)), RInt(CosQ(rot)), RInt(0)>>,
                <<RInt(0), RInt(0), RInt(1)>> >>
        S == << <<RInt(1), RInt(0), RInt(0)>>,
                <<RInt(0), Rat(major, minor), RInt(0)>>,
                <<RInt(0), RInt(0), RInt(1)>> >>
    IN  matmul(matmul(Q, S), transpose(Q))

\* the call frame of ellipse_to_affine(major, minor, rot): its arguments, the
\* locals the matrix is built from, and the matrix returned
ellipse_to_affine(major, minor, rot) ==
    LET n == NormaliseAxes(major, minor, rot)
    IN  [called |-> TRUE,
         in_major |-> major, in_minor |-> minor, in_rot |-> rot,
         major |-> n[1], minor |-> n[2], rot |-> n[3],
         C |-> AffineMatrix(n[1], n[2], n[3])]

NotCalledE2A ==
    [called |-> FALSE, in_major |-> 1, in_minor |-> 1, in_rot |-> 0,
     major |-> 1, minor |-> 1, rot |-> 0, C |-> << >>]

----------------------------------------------------------------------------
(* determine_ellipse *)

Axes == 1..MaxAxis
Rotations == 0..MaxQuarterTurns
CentreCoords == 0..1

\* The EllipseModel after e.estimate(data=pos): estimate returns False and
\* leaves params at None when the fit fails, and returns True with
\* params = (xc, yc, a, b, theta) when it succeeds.
FitOutcomes ==
    {[type |-> "EllipseModel", converge |-> FALSE, params |-> None]}
    \cup {[type |-> "EllipseModel", converge |-> TRUE,
           params |-> <<xc, yc, a, b, t>>] :
            xc \in CentreCoords, yc \in CentreCoords,
            a \in Axes, b \in Axes, t \in Rotations}

\* el = e; if el is not None: ... else: print(...); return None
\* The outcome for the model object e; subscripting params = None raises.
determine_ellipse(e) ==
    LET el == e
    IN  IF el.type # "NoneType"
        THEN IF el.params = None
             THEN [outcome |-> "raise", center |-> << >>,
                   e2a |-> NotCalledE2A]
             ELSE [outcome |-> "return",
                   center |-> <<el.params[1], el.params[2]>>,
                   e2a |-> ellipse_to_affine(el.params[4], el.params[3],
                                             el.params[5])]
        ELSE [outcome |-> "None", center |-> << >>, e2a |-> NotCalledE2A]

----------------------------------------------------------------------------
(* The estimator's state machine.  A behaviour starts with the caller's     *)
(* arguments in place and the functions not yet called.                     *)

Shapes == {<<2, 2>>, <<1, 3>>, <<3, 1>>}

Grids(sh, Vals) == [1..sh[1] -> [1..sh[2] -> Vals]]

Images == UNION {Grids(sh, 0..MaxCount) : sh \in Shapes}

MasksOf(grid) == {None} \cup Grids(shape(grid), BOOLEAN)

NumPixels(grid) == Len(flatten(grid))

NoFit == [type |-> "NoneType"]

\* the parts of the state a specification does not touch
IdlePipeline ==
    /\ signals = << >>
    /\ nb = [cell |-> "idle"]
    /\ var_calls = << >>

IdleVariance ==
    /\ profiles = << >>
    /\ gv = [called |-> FALSE]

IdleEnsemble ==
    /\ var = << >>
    /\ avg = [called |-> FALSE]

IdleThickness ==
    /\ sig = << >>
    /\ thickness = << >>
    /\ bins = << >>
    /\ tf = [called |-> FALSE]
    /\ fvar_calls = << >>

IdleImage ==
    /\ data = << >>
    /\ mask = None
    /\ gmp = [called |-> FALSE, num_points |-> 0, sel |-> << >>, cords |-> << >>]

IdleFit ==
    de = [called |-> FALSE, e |-> NoFit, outcome |-> "None",
          center |-> << >>, affine |-> << >>]

InitPositions ==
    /\ data \in Images
    /\ mask \in MasksOf(data)
    /\ \E n \in 1..NumPixels(data) :
        gmp = [called |-> FALSE, num_points |-> n, sel |-> << >>,
               cords |-> << >>]
    /\ IdleFit
    /\ e2a = NotCalledE2A
    /\ IdlePipeline /\ IdleVariance /\ IdleEnsemble /\ IdleThickness

\* pos = get_max_positions(signal, mask=mask, num_points=num_points): the
\* image is copied by flatten, so the caller's data and mask stay as they are
GetMaxPositions(indexes) ==
    /\ gmp' = [gmp EXCEPT !.called = TRUE,
                          !.sel = LastSlice(indexes, gmp.num_points),
                          !.cords = get_max_positions(data, mask,
                                                      gmp.num_points, indexes)]
    /\ data' = CallerArray(data, flattened_array(data, mask))
    /\ UNCHANGED <<mask, de, e2a>>
    /\ UNCHANGED <<pipeVars, varVars, ensVars, thickVars>>

NextPositions ==
    \E indexes \in ArgsortResults(flattened_array(data, mask)) :
        GetMaxPositions(indexes)

SpecPositions == InitPositions /\ [][NextPositions]_vars

\* the images the fit is tried on have one row of two pixels; de.e is the
\* state e.estimate will leave the EllipseModel in
InitEllipse ==
    /\ data \in Grids(<<1, 2>>, 0..1)
    /\ mask \in {None, << <<FALSE, TRUE>> >>}
    /\ \E n \in 1..2 :
        gmp = [called |-> FALSE, num_points |-> n, sel |-> << >>,
               cords |-> << >>]
    /\ \E e \in FitOutcomes :
        de = [called |-> FALSE, e |-> e, outcome |-> "None",
              center |-> << >>, affine |-> << >>]
    /\ e2a = NotCalledE2A
    /\ IdlePipeline /\ IdleVariance /\ IdleEnsemble /\ IdleThickness

\* center, affine = determine_ellipse(signal, mask, num_points)
DetermineEllipse(indexes) ==
    \E r \in {determine_ellipse(de.e)} :
        /\ gmp' = [gmp EXCEPT !.called = TRUE,
                              !.sel = LastSlice(indexes, gmp.num_points),
                              !.cords = get_max_positions(data, mask,
                                                  gmp.num_points, indexes)]
        /\ de' = [de EXCEPT !.called = TRUE, !.outcome = r.outcome,
                            !.center = r.center,
                            !.affine = IF r.outcome = "return" THEN r.e2a.C
                                       ELSE << >>]
        /\ e2a' = IF r.e2a.called THEN r.e2a ELSE e2a
        /\ data' = CallerArray(data, flattened_array(data, mask))
        /\ UNCHANGED mask
        /\ UNCHANGED <<pipeVars, varVars, ensVars, thickVars>>

NextEllipse ==
    \E indexes \in ArgsortResults(flattened_array(data, mask)) :
        DetermineEllipse(indexes)

SpecEllipse == InitEllipse /\ [][NextEllipse]_vars

\* both functions called, in any order, on the same image and mask
NextEstimator == NextPositions \/ NextEllipse

SpecEstimator == InitEllipse /\ [][NextEstimator]_vars

\* the arguments of a direct call ellipse_to_affine(major, minor, rot)
InitAffine ==
    /\ \E major \in Axes, minor \in Axes, rot \in Rotations :
        e2a = [NotCalledE2A EXCEPT !.in_major = major, !.in_minor = minor,
                                   !.in_rot = rot]
    /\ IdleImage /\ IdleFit
    /\ IdlePipeline /\ IdleVariance /\ IdleEnsemble /\ IdleThickness

EllipseToAffine ==
    /\ e2a' = ellipse_to_affine(e2a.in_major, e2a.in_minor, e2a.in_rot)
    /\ UNCHANGED <<data, mask, gmp, de>>
    /\ UNCHANGED <<pipeVars, varVars, ensVars, thickVars>>

NextAffine == EllipseToAffine

SpecAffine == InitAffine /\ [][NextAffine]_vars

----------------------------------------------------------------------------
(* The multi-dataset calibration loop and the variance list. *)

NumDatasets == 2        \* datasets loaded by hs.load(signals)

\* the fits of the datasets' summed patterns: not converged, or an ellipse
\* centred at (xc, 0) with axes 1..2, unrotated or turned by pi/2
CalibrationFits ==
    {f \in FitOutcomes :
        \/ ~f.converge
        \/ /\ f.params[2] = 0 /\ f.params[3] <= 2 /\ f.params[4] <= 2
           /\ f.params[5] <= 1}

NoAI == [set |-> FALSE, center |-> << >>, affine |-> None]

\* an integrator left at the origin, whatever centre is passed
set_ai_at_origin(s, center, affine) ==
    [s EXCEPT !.ai = [set |-> TRUE, center |-> <<0, 0>>, affine |-> affine]]

\* s.set_ai(center=..., affine=...): the integrator the later integrations
\* of s use; an argument not passed is None
set_ai(s, center, affine) ==
    [s EXCEPT !.ai = [set |-> TRUE, center |-> center, affine |-> affine]]

InitPipeline ==
    /\ signals \in [1..NumDatasets ->
                     {[fit |-> f, beam_energy |-> 0, unit |-> "", ai |-> NoAI] :
                        f \in CalibrationFits}]
    /\ nb = [cell |-> "calibrate", s |-> 1, center |-> << >>, affine |-> << >>]
    /\ var_calls = << >>
    /\ IdleImage /\ IdleFit /\ e2a = NotCalledE2A
    /\ IdleVariance /\ IdleEnsemble /\ IdleThickness

\* one turn of: for s in signals: center, affine = determine_ellipse(s.sum());
\* s.beam_energy = 200; s.unit = "k_nm^-1"; s.set_ai(center=center)
\* An exception, also that of unpacking None, ends the cell.
CalibrateStep ==
    /\ nb.cell = "calibrate"
    /\ LET r == determine_ellipse(signals[nb.s].fit)
       IN  IF r.outcome = "return"
           THEN /\ signals' =
                    [signals EXCEPT ![nb.s] =
                        set_ai([@ EXCEPT !.beam_energy = 200,
                                         !.unit = "k_nm^-1"],
                               r.center, None)]
                /\ nb' = [cell |-> IF nb.s = Len(signals) THEN "variance"
                                   ELSE "calibrate",
                          s |-> IF nb.s = Len(signals) THEN nb.s ELSE nb.s + 1,
                          center |-> r.center, affine |-> r.e2a.C]
           ELSE /\ nb' = [nb EXCEPT !.cell = "raised"]
                /\ UNCHANGED signals
    /\ UNCHANGED var_calls
    /\ UNCHANGED <<estVars, varVars, ensVars, thickVars>>

\* var = [s.get_variance(npt=50, dqe=4.2, radial_range=(3.0, 5.7)) for s in
\* signals]: each call integrates with the integrator set on its dataset
VarianceCell ==
    /\ nb.cell = "variance"
    /\ var_calls' = [i \in 1..Len(signals) |->
                        [center |-> signals[i].ai.center,
                         affine |-> signals[i].ai.affine]]
    /\ nb' = [nb EXCEPT !.cell = "done"]
    /\ UNCHANGED signals
    /\ UNCHANGED <<estVars, varVars, ensVars, thickVars>>

NextPipeline == CalibrateStep \/ VarianceCell

SpecPipeline == InitPipeline /\ [][NextPipeline]_vars

----------------------------------------------------------------------------
(* Floating-point values: a number, NaN, or an infinity.  Division by zero *)
(* gives NaN or an infinity, as numpy's arrays do, and raises nothing.     *)

Num(r) == [k |-> "num", v |-> r]
NaN == [k |-> "nan", v |-> <<0, 1>>]
Inf(sign) == [k |-> "inf", v |-> <<sign, 1>>]

Sign(r) == IF r[1] < 0 THEN -1 ELSE 1

\* a division that gives 0 whenever the divisor is 0
FDivSilentZero(x, y) ==
    IF y.k = "num" /\ y.v[1] = 0 THEN Num(<<0, 1>>)
    ELSE IF x.k = "num" /\ y.k = "num" THEN Num(RDiv(x.v, y.v))
    ELSE NaN

\* x / y
FDiv(x, y) ==
    CASE x.k = "nan" \/ y.k = "nan" -> NaN
      [] x.k = "inf" /\ y.k = "inf" -> NaN
      [] x.k = "inf" -> Inf(Sign(x.v) * Sign(y.v))
      [] y.k = "inf" -> Num(<<0, 1>>)
      [] y.v[1] = 0 -> IF x.v[1] = 0 THEN NaN ELSE Inf(Sign(x.v))
      [] OTHER -> Num(RDiv(x.v, y.v))

\* x + y
FAdd(x, y) ==
    CASE x.k = "nan" \/ y.k = "nan" -> NaN
      [] x.k = "inf" /\ y.k = "inf" -> IF x.v = y.v THEN x ELSE NaN
      [] x.k = "inf" -> x
      [] y.k = "inf" -> y
      [] OTHER -> Num(RAdd(x.v, y.v))

\* x - y
FSub(x, y) ==
    CASE x.k = "nan" \/ y.k = "nan" -> NaN
      [] x.k = "inf" /\ y.k = "inf" -> IF x.v = y.v THEN NaN ELSE x
      [] x.k = "inf" -> x
      [] y.k = "inf" -> Inf(-Sign(y.v))
      [] OTHER -> Num(RSub(x.v, y.v))

----------------------------------------------------------------------------
(* Equation 1: the variance over the probe positions. *)

NumPositions == 2       \* probe positions of the ensemble
MaxIntensity == 2       \* azimuthally averaged intensities are 0..MaxIntensity
KBins == 1..2
Gains == {<<1, 1>>, <<2, 1>>, <<21, 5>>}

RECURSIVE SumSeq(_)
SumSeq(q) == IF q = << >> THEN 0 ELSE Head(q) + SumSeq(Tail(q))

\* <x>_r: the mean over the probe positions
MeanOver(q) == Rat(SumSeq(q), Len(q))

\* I(k) over the probe positions, and its square
Column(P, k) == [r \in DOMAIN P |-> P[r][k]]
Squares(q) == [r \in DOMAIN q |-> q[r] * q[r]]

\* (<I^2>_r - <I>_r^2) / <I>_r^2
NormalisedVariance(q) ==
    FDiv(Num(RSub(MeanOver(Squares(q)), RMul(MeanOver(q), MeanOver(q)))),
         Num(RMul(MeanOver(q), MeanOver(q))))

\* <I>_r / G: the term turned upside down
PoissonTermInverted(q, G) == FDiv(Num(MeanOver(q)), Num(G))

\* G / <I>_r
PoissonTerm(q, G) == FDiv(Num(G), Num(MeanOver(q)))

\* Equation 1 with the Poisson term added
V_OmegaAdded(q, G) == FAdd(NormalisedVariance(q), PoissonTerm(q, G))

\* Equation 1 at one k-bin
V_Omega(q, G) == FSub(NormalisedVariance(q), PoissonTerm(q, G))

\* signal.get_variance(npt, dqe=G): Equation 1 at every k-bin
get_variance(P, G) == [k \in KBins |-> V_Omega(Column(P, k), G)]

NotCalledGV == [called |-> FALSE, dqe |-> <<0, 1>>, variance |-> << >>]

InitVariance ==
    /\ profiles \in [1..NumPositions -> [KBins -> 0..MaxIntensity]]
    /\ gv = [called |-> FALSE, dqe |-> <<0, 1>>, variance |-> << >>,
             prev |-> NotCalledGV]
    /\ IdleImage /\ IdleFit /\ e2a = NotCalledE2A
    /\ IdlePipeline /\ IdleEnsemble /\ IdleThickness

\* signal.get_variance(npt=..., dqe=G, ...), after the call before it
GetVariance(G) ==
    /\ gv' = [called |-> TRUE, dqe |-> G, variance |-> get_variance(profiles, G),
              prev |-> [called |-> gv.called, dqe |-> gv.dqe,
                        variance |-> gv.variance]]
    /\ UNCHANGED profiles
    /\ UNCHANGED <<estVars, pipeVars, ensVars, thickVars>>

NextVariance == \E G \in Gains : GetVariance(G)

SpecVariance == InitVariance /\ [][NextVariance]_vars

----------------------------------------------------------------------------
(* The ensemble averaging cell. *)

MaxCurves == 3          \* variance curves combined
CurveValues == 0..2
StdDivisor == 10        \* the 10 of np.sqrt(10)

RECURSIVE RSumSeq(_)
RSumSeq(q) == IF q = << >> THEN <<0, 1>> ELSE RAdd(Head(q), RSumSeq(Tail(q)))

\* np.std(x) ** 2 with no axis: mean(abs(x - x.mean()) ** 2) over every
\* entry of the array
StdSq(x) ==
    LET flat == flatten(x)
        mu == MeanOver(flat)
    IN  RDiv(RSumSeq([i \in DOMAIN flat |->
                        RMul(RSub(RInt(flat[i]), mu), RSub(RInt(flat[i]), mu))]),
             RInt(Len(flat)))

\* one mean over every entry of every curve, repeated at each bin
GrandMean(x) == [k \in KBins |-> MeanOver(flatten(x))]

\* np.mean(var).data: the curves added bin by bin, over their number
MeanCurve(x) == [k \in KBins |-> MeanOver(Column(x, k))]

InitEnsemble ==
    /\ var \in UNION {[1..n -> [KBins -> CurveValues]] : n \in 1..MaxCurves}
    /\ avg = [called |-> FALSE, error_sq |-> <<0, 1>>, mean_val |-> << >>]
    /\ IdleImage /\ IdleFit /\ e2a = NotCalledE2A
    /\ IdlePipeline /\ IdleVariance /\ IdleThickness

\* error = np.std([v.data for v in var]) / np.sqrt(10)
\* mean_val = np.mean(var).data
\* error_sq is error ** 2; the band drawn is mean_val -/+ error at every bin
AverageCell ==
    /\ avg' = [called |-> TRUE,
               error_sq |-> RDiv(StdSq(var), RInt(StdDivisor)),
               mean_val |-> MeanCurve(var)]
    /\ UNCHANGED var
    /\ UNCHANGED <<estVars, pipeVars, varVars, thickVars>>

NextEnsemble == AverageCell

SpecEnsemble == InitEnsemble /\ [][NextEnsemble]_vars

----------------------------------------------------------------------------
(* The thickness cells: the bin edges, thickness_filter and the variance of *)
(* each sub-stack.  The stack has one pattern per probe position; a pattern *)
(* is carried as the position <<row, column>> it was recorded at.  The      *)
(* calibration set by set_ai, beam_energy and unit is held in the stack's   *)
(* metadata, the only place a sub-stack could take it from.                 *)

MaxThickness == 2       \* thickness values are 0..MaxThickness
NumEdges == 3           \* num=2+1 of np.linspace
NavShapes == {<<2, 2>>, <<1, 3>>}

RECURSIVE MinSeq(_)
MinSeq(q) ==
    IF Len(q) = 1 THEN q[1]
    ELSE IF q[1] < MinSeq(Tail(q)) THEN q[1] ELSE MinSeq(Tail(q))

RECURSIVE MaxSeq(_)
MaxSeq(q) ==
    IF Len(q) = 1 THEN q[1]
    ELSE IF q[1] > MaxSeq(Tail(q)) THEN q[1] ELSE MaxSeq(Tail(q))

\* np.min(thickness, axis=(0,1)) and np.max(thickness, axis=(0,1))
np_min(thk) == MinSeq(flatten(thk))
np_max(thk) == MaxSeq(flatten(thk))

\* np.linspace(start, stop, num): num evenly spaced edges, both ends included
linspace(start, stop, num) ==
    [i \in 1..num |->
        RAdd(RInt(start), Rat((i - 1) * (stop - start), num - 1))]

\* a bin that takes the thickness values equal to its edges too
ClosedBin(lo, thk, hi) ==
    [r \in DOMAIN thk |->
        [c \in DOMAIN thk[r] |->
            ~RLess(RInt(thk[r][c]), lo) /\ ~RLess(hi, RInt(thk[r][c]))]]

\* np.logical_and(bins[i] < thickness, bins[i+1] > thickness)
logical_and(lo, thk, hi) ==
    [r \in DOMAIN thk |->
        [c \in DOMAIN thk[r] |->
            RLess(lo, RInt(thk[r][c])) /\ RLess(RInt(thk[r][c]), hi)]]

\* the entries of the flat sequence d at the TRUE entries of the flat mask m
RECURSIVE Compress(_, _)
Compress(d, m) ==
    IF d = << >> THEN << >>
    ELSE IF Head(m) THEN <<Head(d)>> \o Compress(Tail(d), Tail(m))
    ELSE Compress(Tail(d), Tail(m))

\* signal.data[m.data, :, :]: a new array holding the patterns of the
\* positions where m is TRUE, in row-major order
BoolIndex(d, m) == Compress(flatten(d), flatten(m))

\* what hs.signals.Signal2D(array) starts with
DefaultAxes == [units |-> "<undefined>", scale |-> 1]
NoMetadata == [ai |-> NoAI, beam_energy |-> 0, unit |-> ""]

\* a sub-stack left as hs.signals.Signal2D made it
BareSubstack(signal, m) ==
    [data |-> BoolIndex(signal.data, m),
     signal_type |-> "",
     signal_axes |-> DefaultAxes,
     metadata |-> NoMetadata]

\* f = hs.signals.Signal2D(signal.data[m.data,:,:]);
\* f.set_signal_type("electron_diffraction");
\* f.axes_manager.signal_axes = signal.axes_manager.signal_axes;
\* f.metadata = signal.metadata
Substack(signal, m) ==
    [data |-> BoolIndex(signal.data, m),
     signal_type |-> "electron_diffraction",
     signal_axes |-> signal.signal_axes,
     metadata |-> signal.metadata]

\* thickness_filter(signal, thickness, bins): returns filtered, thickness
thickness_filter(signal, thk, b) ==
    LET masks == [i \in 1..(Len(b) - 1) |-> logical_and(b[i], thk, b[i + 1])]
    IN  [masks |-> masks,
         filtered |-> [i \in DOMAIN masks |-> Substack(signal, masks[i])],
         thickness |-> thk]

\* the integrator f.get_variance integrates with
integrator(f) == f.metadata.ai

StrictlyIncreasing(b) ==
    \A i \in 1..(Len(b) - 1) : RLess(b[i], b[i + 1])

\* the whole values an edge can take: the thickness values and one beyond
\* each end of them
EdgeValues == (-1)..(MaxThickness + 1)

\* bin edges a caller can pass: those of the notebook, from the minimum to
\* the maximum of the map, or two or three whole edges
BinEdges(thk) ==
    {linspace(np_min(thk), np_max(thk), NumEdges)}
        \cup {<<RInt(x), RInt(y)>> : x, y \in EdgeValues}
        \cup {<<RInt(x), RInt(y), RInt(z)>> : x, y, z \in EdgeValues}

InitThickness ==
    /\ \E sh \in NavShapes :
          /\ thickness \in Grids(sh, 0..MaxThickness)
          /\ \E x \in CentreCoords :
                sig = [data |-> [r \in 1..sh[1] |->
                                    [c \in 1..sh[2] |-> <<r - 1, c - 1>>]],
                       signal_axes |-> [units |-> "k_nm^-1", scale |-> 2],
                       metadata |-> [ai |-> [set |-> TRUE,
                                             center |-> <<x, 0>>,
                                             affine |-> None],
                                     beam_energy |-> 200,
                                     unit |-> "k_nm^-1"]]
    /\ bins \in {b \in BinEdges(thickness) : StrictlyIncreasing(b)
                    \/ b = linspace(np_min(thickness), np_max(thickness), NumEdges)}
    /\ tf = [called |-> FALSE]
    /\ fvar_calls = << >>
    /\ IdleImage /\ IdleFit /\ e2a = NotCalledE2A
    /\ IdlePipeline /\ IdleVariance /\ IdleEnsemble

\* filtered, thickness = thickness_filter(signal, thickness, bins)
ThicknessFilter ==
    /\ ~tf.called
    /\ \E r \in {thickness_filter(sig, thickness, bins)} :
          /\ tf' = [called |-> TRUE, masks |-> r.masks, filtered |-> r.filtered]
          /\ thickness' = r.thickness
    /\ UNCHANGED <<sig, bins, fvar_calls>>
    /\ UNCHANGED <<estVars, pipeVars, varVars, ensVars>>

\* var = [f.get_variance(npt=50, dqe=4.2, radial_range=(3.0, 5.7)) for f in
\* filtered]
FilteredVarianceCell ==
    /\ tf.called
    /\ fvar_calls = << >>
    /\ fvar_calls' = [i \in DOMAIN tf.filtered |-> integrator(tf.filtered[i])]
    /\ UNCHANGED <<sig, thickness, bins, tf>>
    /\ UNCHANGED <<estVars, pipeVars, varVars, ensVars>>

NextThickness == ThicknessFilter \/ FilteredVarianceCell

SpecThickness == InitThickness /\ [][NextThickness]_vars

----------------------------------------------------------------------------
(* Properties of the estimator. *)

\* the value the argsort ranked at coordinate rc of the image
RankedAt(rc) == flattened_array(data, mask)[rc[1] * shape(data)[2] + rc[2] + 1]

AllCoords ==
    {<<r, c>> : r \in 0..(shape(data)[1] - 1), c \in 0..(shape(data)[2] - 1)}

Selected == {gmp.cords[k] : k \in DOMAIN gmp.cords}

IsMasked(rc) == mask # None /\ mask[rc[1] + 1][rc[2] + 1]

NumUnmasked == Cardinality({rc \in AllCoords : ~IsMasked(rc)})

\* C1: when the fit does not converge, determine_ellipse returns None: it
\* neither raises nor returns a (center, affine) pair.
C1_NotConvergedReturnsNone ==
    (de.called /\ ~de.e.converge) => de.outcome = "None"

\* C2: for 1 <= num_points <= number of unmasked pixels, the coordinates
\* returned by get_max_positions are pairwise distinct and none is masked.
C2_DistinctAndUnmasked ==
    (gmp.called /\ gmp.num_points <= NumUnmasked) =>
        /\ \A i, j \in DOMAIN gmp.cords : i # j => gmp.cords[i] # gmp.cords[j]
        /\ \A rc \in Selected : ~IsMasked(rc)

\* C3: get_max_positions returns exactly num_points coordinates, and every
\* selected pixel's masked-to-zero value is >= that of every pixel not selected.
C3_TopValues ==
    gmp.called =>
        /\ Len(gmp.cords) = gmp.num_points
        /\ Cardinality(Selected) = gmp.num_points
        /\ Selected \subseteq AllCoords
        /\ \A s \in Selected : \A t \in AllCoords \ Selected :
                RankedAt(s) >= RankedAt(t)

\* a call that had to choose: a masked bright pixel is left out for a dimmer one
C3_Witness ==
    /\ gmp.called
    /\ gmp.num_points = 2
    /\ \E s \in Selected : \E t \in AllCoords \ Selected :
            /\ RankedAt(s) > RankedAt(t)
            /\ IsMasked(t) /\ data[t[1] + 1][t[2] + 1] > RankedAt(s)

\* C applied to the point (x, y, 1)
ApplyAffine(M, pt) ==
    LET co(i) == RAdd(RAdd(RMul(M[i][1], RInt(pt[1])),
                           RMul(M[i][2], RInt(pt[2]))), M[i][3])
    IN  <<co(1), co(2)>>

RadiusSq(q) == RAdd(RMul(q[1], q[1]), RMul(q[2], q[2]))

\* C4: the axes the matrix is built from satisfy major >= minor; an input with
\* major < minor is swapped and its rotation turned by exactly pi/2, any other
\* input is used unchanged; the matrix keeps the direction rot and scales the
\* direction across it by major/minor >= 1.
C4_AxesNormalised ==
    e2a.called =>
        /\ e2a.major >= e2a.minor
        /\ e2a.in_major < e2a.in_minor =>
                /\ e2a.major = e2a.in_minor /\ e2a.minor = e2a.in_major
                /\ e2a.rot = e2a.in_rot + 1
        /\ e2a.in_major >= e2a.in_minor =>
                /\ e2a.major = e2a.in_major /\ e2a.minor = e2a.in_minor
                /\ e2a.rot = e2a.in_rot
        /\ ApplyAffine(e2a.C, <<CosQ(e2a.rot), SinQ(e2a.rot)>>)
                = <<RInt(CosQ(e2a.rot)), RInt(SinQ(e2a.rot))>>
        /\ ApplyAffine(e2a.C, <<-SinQ(e2a.rot), CosQ(e2a.rot)>>)
                = <<Rat(-SinQ(e2a.rot) * e2a.major, e2a.minor),
                    Rat(CosQ(e2a.rot) * e2a.major, e2a.minor)>>

C4_Witness ==
    e2a.called /\ e2a.in_major < e2a.in_minor /\ e2a.in_rot = 1

\* the four axis end-points of the centred ellipse with semi-axis a along the
\* direction rot and semi-axis b across it
AxisEndPoints(a, b, r) ==
    {<<a * CosQ(r), a * SinQ(r)>>, <<-a * CosQ(r), -a * SinQ(r)>>,
     <<-b * SinQ(r), b * CosQ(r)>>, <<b * SinQ(r), -b * CosQ(r)>>}

\* C5 as stated: the matrix takes every point of the ellipse (major, minor,
\* rot) to the distance of the minor axis length from the centre.
C5_CircleOfMinorRadius ==
    e2a.called =>
        \A pt \in AxisEndPoints(e2a.in_major, e2a.in_minor, e2a.in_rot) :
            RadiusSq(ApplyAffine(e2a.C, pt)) = RInt(e2a.minor * e2a.minor)

\* C5 amended: the matrix takes every point of the ellipse (major, minor, rot)
\* to one and the same distance from the centre, the length of the larger
\* (major) axis: the minor axis is stretched by major/minor.
C5_CircleOfMajorRadius ==
    e2a.called =>
        \A pt \in AxisEndPoints(e2a.in_major, e2a.in_minor, e2a.in_rot) :
            RadiusSq(ApplyAffine(e2a.C, pt)) = RInt(e2a.major * e2a.major)

C5_Witness ==
    e2a.called /\ e2a.in_major > e2a.in_minor /\ e2a.in_rot = 1

----------------------------------------------------------------------------
(* Properties of the calibration loop. *)

Identity3 ==
    << <<RInt(1), RInt(0), RInt(0)>>, <<RInt(0), RInt(1), RInt(0)>>,
       <<RInt(0), RInt(0), RInt(1)>> >>

\* the correction an integrator applies: none (the identity) for affine = None
EffectiveAffine(a) == IF a = None THEN Identity3 ELSE a

\* the affine determine_ellipse computes for dataset i
EstimatedAffine(i) == determine_ellipse(signals[i].fit).e2a.C

\* C6: once a dataset is calibrated its calibration holds the affine that
\* determine_ellipse estimated for it, and every variance call on the dataset
\* integrates with that affine.
C6_AffineInForce ==
    /\ \A i \in DOMAIN signals :
            signals[i].ai.set =>
                EffectiveAffine(signals[i].ai.affine) = EstimatedAffine(i)
    /\ \A i \in DOMAIN var_calls :
            EffectiveAffine(var_calls[i].affine) = EstimatedAffine(i)

----------------------------------------------------------------------------
(* Properties of the variance. *)

FLess(x, y) == x.k = "num" /\ y.k = "num" /\ RLess(x.v, y.v)

C8_LowerGainLowerV ==
    (gv.called /\ gv.prev.called /\ RLess(gv.prev.dqe, gv.dqe)) =>
        \A k \in KBins :
            SumSeq(Column(profiles, k)) > 0 =>
                FLess(gv.prev.variance[k], gv.variance[k])

\* C8 amended: the Poisson correction is subtracted, and on a fixed ensemble,
\* at a bin with positive mean, the lower gain gives the smaller subtracted
\* term and therefore the higher V.
C8_LowerGainHigherV ==
    /\ gv.called =>
        \A k \in KBins :
            SumSeq(Column(profiles, k)) > 0 =>
                FLess(gv.variance[k], NormalisedVariance(Column(profiles, k)))
    /\ (gv.called /\ gv.prev.called /\ RLess(gv.prev.dqe, gv.dqe)) =>
        \A k \in KBins :
            SumSeq(Column(profiles, k)) > 0 =>
                FLess(gv.variance[k], gv.prev.variance[k])

C8_Witness ==
    /\ gv.called /\ gv.prev.called /\ RLess(gv.prev.dqe, gv.dqe)
    /\ \E k \in KBins : SumSeq(Column(profiles, k)) > 0

\* the ensemble with one intensity everywhere in bin j
WithBinReplaced(P, j) == [r \in DOMAIN P |-> [P[r] EXCEPT ![j] = 1]]

----------------------------------------------------------------------------
(* Properties of the ensemble averaging. *)

\* the square of the sample standard deviation of q (Len(q) >= 2)
SampleVariance(q) ==
    LET mu == MeanOver(q)
    IN  RDiv(RSumSeq([i \in DOMAIN q |->
                        RMul(RSub(RInt(q[i]), mu), RSub(RInt(q[i]), mu))]),
             RInt(Len(q) - 1))

\* C10: the uncertainty at each k-bin is the sample standard deviation of the
\* N curves' values at that bin divided by sqrt(N), N the number of curves
\* combined.  (Squared: error^2 = s_k^2 / N at every bin k.)
C10_PerBinStandardError ==
    (avg.called /\ Len(var) >= 2) =>
        \A k \in KBins :
            avg.error_sq = RDiv(SampleVariance(Column(var, k)), RInt(Len(var)))

\* C11: when exactly one variance curve is given to the averaging cell, the
\* standard-error band is exactly zero at every k-bin, whatever the values
\* of that curve.
C11_SingleCurveZeroBand ==
    (avg.called /\ Len(var) = 1) => avg.error_sq = <<0, 1>>

----------------------------------------------------------------------------
(* Properties of the thickness cells. *)

Positions ==
    {<<r - 1, c - 1>> : r \in DOMAIN thickness, c \in DOMAIN thickness[1]}

ThicknessAt(p) == thickness[p[1] + 1][p[2] + 1]

\* the probe positions whose pattern is in sub-stack i
PositionsIn(i) == {tf.filtered[i].data[k] : k \in DOMAIN tf.filtered[i].data}

LeftOut == {p \in Positions : \A i \in DOMAIN tf.filtered : p \notin PositionsIn(i)}

NotebookEdges == linspace(np_min(thickness), np_max(thickness), NumEdges)

\* C13: for strictly increasing bin edges the sub-stacks returned by
\* thickness_filter are pairwise disjoint: no probe position's pattern is in
\* more than one thickness bin.
C13_SubstacksDisjoint ==
    (tf.called /\ StrictlyIncreasing(bins)) =>
        \A i, j \in DOMAIN tf.filtered :
            i # j => PositionsIn(i) \cap PositionsIn(j) = {}

\* two bins, both with patterns, and a position exactly on the edge between
\* them
C13_Witness ==
    /\ tf.called
    /\ StrictlyIncreasing(bins)
    /\ Len(bins) = 3
    /\ PositionsIn(1) # {} /\ PositionsIn(2) # {}
    /\ \E p \in Positions : RInt(ThicknessAt(p)) = bins[2]

\* C14: each bin is a half-open interval holding one of its two edges, so the
\* bins cover the range they span: a position whose thickness equals an
\* interior edge is in a sub-stack, and with edges running from the minimum
\* to the maximum thickness the positions left out of every sub-stack are
\* all at one extreme of the range.
C14_BinsCoverRange ==
    (tf.called /\ StrictlyIncreasing(bins)) =>
        /\ \A p \in Positions :
              (\E i \in 2..(Len(bins) - 1) : RInt(ThicknessAt(p)) = bins[i])
                  => p \notin LeftOut
        /\ bins = NotebookEdges =>
              \/ \A p \in LeftOut : ThicknessAt(p) = np_min(thickness)
              \/ \A p \in LeftOut : ThicknessAt(p) = np_max(thickness)

\* C19: every sub-stack returned by thickness_filter carries the calibration
\* of the stack it was cut from (integrator and centre, beam energy, unit,
\* signal axes), the variance of a thickness bin integrates with that one
\* calibration, and thickness_filter leaves the stack's patterns and the
\* thickness map as they were.
C19_SubstacksKeepCalibration ==
    /\ [](tf.called =>
            \A i \in DOMAIN tf.filtered :
                /\ tf.filtered[i].metadata.ai = sig.metadata.ai
                /\ tf.filtered[i].metadata.ai.set
                /\ tf.filtered[i].metadata.beam_energy = sig.metadata.beam_energy
                /\ tf.filtered[i].metadata.unit = sig.metadata.unit
                /\ tf.filtered[i].signal_axes = sig.signal_axes
                /\ i \in DOMAIN fvar_calls => fvar_calls[i] = sig.metadata.ai)
    /\ [][sig' = sig /\ thickness' = thickness]_vars

\* the variances of two sub-stacks with patterns have been computed on a
\* stack calibrated with a centre other than the default
C19_Witness ==
    /\ tf.called
    /\ Len(fvar_calls) = 2
    /\ sig.metadata.ai.center = <<1, 0>>
    /\ PositionsIn(1) # {} /\ PositionsIn(2) # {}

----------------------------------------------------------------------------
(* Properties of the estimator: its inputs and its coordinates. *)

\* C15: get_max_positions and determine_ellipse have no side effect on their
\* inputs: after the call, with or without a mask, every pixel of the
\* caller's image, the masked ones included, and every entry of the mask has
\* the value it had before the call.
C15_InputsUntouched == [][data' = data /\ mask' = mask]_vars

\* both functions have run on an image whose masked pixel holds a count
C15_Witness ==
    /\ gmp.called /\ de.called
    /\ \E rc \in AllCoords : IsMasked(rc) /\ data[rc[1] + 1][rc[2] + 1] # 0

----------------------------------------------------------------------------
(* Properties of the calibration loop: its order. *)

\* the centre of the ellipse fitted to the summed pattern of dataset i
OwnCentre(i) == <<signals[i].fit.params[1], signals[i].fit.params[2]>>

\* C16: in the multi-dataset workflow no dataset's variance is computed
\* before that dataset's centre has been estimated from its own summed
\* pattern and set as its calibration, and the centre set on a dataset is the
\* one estimated from that same dataset, not from another one of the loop.
C16_OwnCentreBeforeVariance ==
    /\ \A i \in DOMAIN var_calls :
          /\ signals[i].ai.set
          /\ signals[i].fit.converge
          /\ var_calls[i].center = OwnCentre(i)
    /\ \A i \in DOMAIN signals :
          signals[i].ai.set => signals[i].ai.center = OwnCentre(i)

\* the variances of two datasets with different centres have been computed
C16_Witness ==
    /\ Len(var_calls) = NumDatasets
    /\ OwnCentre(1) # OwnCentre(2)
    /\ OwnCentre(2) # <<0, 0>>

----------------------------------------------------------------------------
(* Properties of determine_ellipse: the order of the fit's parameters. *)

\* the unit vector along the direction rot
Direction(rot) == <<CosQ(rot), SinQ(rot)>>

\* C17: determine_ellipse builds the affine from the fit's semi-major and
\* semi-minor parameters in the order of the ellipse model: the rotation of
\* the returned affine is the fit's rotation turned by pi/2 if and only if
\* the fit's params[2] is smaller than its params[3] (a < b of
\* params = (xc, yc, a, b, theta)) and is the fit's rotation otherwise; the
\* returned centre is (params[0], params[1]).  The rotation of the affine is
\* the direction the matrix keeps, the direction across it being scaled.
C17_ModelOrder ==
    (de.called /\ de.outcome = "return") =>
        LET xc == de.e.params[1]
            yc == de.e.params[2]
            a == de.e.params[3]
            b == de.e.params[4]
            theta == de.e.params[5]
            rot == IF a < b THEN theta + 1 ELSE theta
        IN  /\ de.center = <<xc, yc>>
            /\ de.affine = e2a.C
            /\ e2a.rot = rot
            /\ ApplyAffine(de.affine, Direction(rot)) =
                   <<RInt(Direction(rot)[1]), RInt(Direction(rot)[2])>>

----------------------------------------------------------------------------
(* Properties of ellipse_to_affine: the circular fit and the translation. *)

\* C20: when the two axes are equal (major = minor) ellipse_to_affine returns
\* the 3x3 identity matrix for every rotation angle, so a circular fit
\* applies no correction; and for any input the last row and the last column
\* of the matrix are (0, 0, 1): it has no translation component.
C20_CircleIsIdentity ==
    e2a.called =>
        /\ e2a.in_major = e2a.in_minor => e2a.C = Identity3
        /\ e2a.C[3] = <<RInt(0), RInt(0), RInt(1)>>
        /\ <<e2a.C[1][3], e2a.C[2][3], e2a.C[3][3]>> =
               <<RInt(0), RInt(0), RInt(1)>>

\* a circular fit at a rotation of a quarter turn
C20_Witness ==
    /\ e2a.called
    /\ e2a.in_major = e2a.in_minor
    /\ e2a.in_major > 1
    /\ e2a.in_rot = 1
    /\ e2a.C = Identity3

====
